---- MODULE Spec2Model ----
(***************************************************************************)
(* Model of main.py, the Angel One SmartAPI polling scaffold: the CLI      *)
(* entry point, run_loop, single_cycle, the broker login and fetch         *)
(* helpers, the SQLite snapshot table and the Telegram notifier.           *)
(*                                                                         *)
(* What lies outside the program is an input drawn with \E: what the       *)
(* SmartConnect object exposes and what its methods return or raise,       *)
(* whether SQLite raises, what the HTTP POST to Telegram does, what the    *)
(* wall clock reads, and when the user presses Ctrl-C.                     *)
(*                                                                         *)
(* Abstractions: a value returned by the broker is one of four kinds       *)
(* (CallOutcomes); timestamps and prices are opaque tokens; the JSON text   *)
(* of a payload is kept as its key set and debug tag; datetimes are whole  *)
(* seconds counted from the midnight of the day on which now was read;     *)
(* logging is not modelled; debug_print_api (lines 136-162) is wrapped in  *)
(* try/except, only logs, and is left out of LoginStep. The program never  *)
(* reads, changes or deletes a row: the rows of earlier cycles (ids        *)
(* 1..cycle_base) are kept as their number, the rows of the current cycle  *)
(* in full. Locals that are dead (not read again before they are assigned) *)
(* are reset as soon as they are dead.                                     *)
(***************************************************************************)
EXTENDS Integers, Sequences, FiniteSets, TLC

VARIABLES
    args_mock,            \* --mock
    args_loop,            \* --loop
    ANGEL_API_KEY,        \* TRUE iff the variable is set and non-empty
    ANGEL_CLIENT_CODE,
    ANGEL_PASSWORD,
    TELEGRAM_BOT_TOKEN,
    TELEGRAM_CHAT_ID,
    SMARTAPI_AVAILABLE,   \* the SmartApi import succeeded
    pc,                   \* position of the single thread of control
    exit_code,            \* process exit status, -1 while running
    exit_reason,          \* "running", "no_smartapi", "normal", "interrupt", "fatal"
    cycle,                \* number of single_cycle calls started
    cycle_base,           \* number of rows in the snapshots table when the cycle started
    snapshots,            \* the rows the table gained since then, in insertion order
    sqlite_sequence,      \* AUTOINCREMENT: the largest id handed out
    db_faults,            \* SQLite errors injected so far
    api,                  \* single_cycle's api: None, or the probed methods the object has
    login_resp,           \* what the login call produced in this cycle
    broker_log,           \* kinds of broker operation invoked in this cycle
    sym_idx,              \* index into SYMBOLS of the symbol being scanned
    ltp_calls,            \* methods invoked by fetch_ltp_by_method, with outcomes
    oc_calls,             \* methods invoked by fetch_option_chain_probes
    payload,              \* single_cycle's payload for the current symbol
    notify_log,           \* symbols send_telegram was called for in this cycle
    tg,                   \* the last send_telegram call: posts made, value returned
    now,                  \* run_loop's now, seconds since that day's midnight
    next_run,             \* run_loop's next_run, on the same scale
    slept                 \* the argument run_loop passed to time.sleep

config == <<args_mock, args_loop, ANGEL_API_KEY, ANGEL_CLIENT_CODE, ANGEL_PASSWORD,
            TELEGRAM_BOT_TOKEN, TELEGRAM_CHAT_ID, SMARTAPI_AVAILABLE>>
process == <<pc, exit_code, exit_reason, cycle, cycle_base>>
store == <<snapshots, sqlite_sequence, db_faults>>
session == <<api, login_resp, broker_log>>
scan == <<sym_idx, ltp_calls, oc_calls, payload, notify_log, tg>>
timer == <<now, next_run, slept>>
vars == <<config, process, store, session, scan, timer>>

----------------------------------------------------------------------------
(* Bounds of the model *)

\* cycles run_loop may start before the model stops starting new ones
MaxCycles == 2
\* probed method names one SmartConnect object may expose
MaxExposed == 2
\* SQLite errors the environment may raise during one run
MaxDbFaults == 1

----------------------------------------------------------------------------
(* Configuration and fixed lists of the program *)

SYMBOLS == <<"NIFTY", "SENSEX", "RELIANCE", "HDFCBANK">>

candidates == <<"ltp", "get_ltp", "getLTP", "ltpData", "getLTPData", "getLtp", "getLTPFeed">>
quote_candidates == <<"get_quote", "get_quote_data", "quote", "getQuote", "quoteFeed">>
probes == <<"option_chain", "get_option_chain", "getOptionChain", "get_opt_chain",
            "get_option_chain_for_symbol">>
instrument_probes == <<"instruments", "instrument_master", "getInstrumentMaster",
                       "get_instruments", "getInstruments">>
login_methods == <<"generateSession", "login">>
LoginNames == {login_methods[1], login_methods[2]}

\* The probed names the modelled broker objects may expose: two of one list (so that
\* order inside a list shows) and one of each other list.
ExposableNames == {candidates[1], candidates[4], quote_candidates[1],
                   probes[3], instrument_probes[1]}

\* The method surfaces of a SmartConnect object: login methods and probed methods.
SurfacesUpTo(n) == {L \cup F : L \in SUBSET LoginNames,
                               F \in {X \in SUBSET ExposableNames : Cardinality(X) <= n}}
Surfaces == SurfacesUpTo(MaxExposed)
\* The surfaces the orchestrator's specification draws from: at most one probed method.
NarrowSurfaces == SurfacesUpTo(1)

None == [present |-> FALSE, methods |-> {}]
NoPayload == [unset |-> TRUE]
NoCall == [posts |-> 0, result |-> "not_called", raised |-> FALSE]

\* What a broker method call does: return a dict holding a price under a known key,
\* return some other JSON-serialisable value, return a value json.dumps cannot
\* encode, or raise.
CallOutcomes == {"quote", "json", "object", "raise"}
\* What the login call does: return a session, return a refusal, or raise.
LoginOutcomes == {"session", "refused", "raise"}
\* What requests.post and the response do.
PostOutcomes == {"ok", "bad_body", "http_error", "transport_error"}

----------------------------------------------------------------------------
(* Pure helpers *)

\* safe_call_and_log without its except clause: what fn raises gets out.
safe_call_and_log_reraise(outcome) ==
    IF outcome = "raise"
    THEN [raised |-> TRUE, value |-> "error"]
    ELSE [raised |-> FALSE, value |-> outcome]

\* safe_call_and_log: the value the wrapper hands back for what fn did. An
\* exception becomes the dict {"error": str(e)}; raised says whether the wrapper
\* itself lets an exception out.
safe_call_and_log(outcome) ==
    IF outcome = "raise"
    THEN [raised |-> FALSE, value |-> "error"]
    ELSE [raised |-> FALSE, value |-> outcome]

\* The probing loop with a break after the first method found.
ProbeCallsFirstOnly(names, obj, out) ==
    LET hit == SelectSeq(names, LAMBDA m : m \in obj.methods)
    IN  IF hit = <<>> THEN <<>>
        ELSE <<[method |-> hit[1], outcome |-> out[hit[1]]]>>

\* The loop `for m in names: if hasattr(api, m): ... safe_call_and_log(getattr(api, m), ...)`:
\* the calls it makes, in order, each with what the method did (out[m]).
ProbeCalls(names, obj, out) ==
    LET hit == SelectSeq(names, LAMBDA m : m \in obj.methods)
    IN  [i \in 1..Len(hit) |-> [method |-> hit[i], outcome |-> out[hit[i]]]]

\* The dict {method: result} the calls fill in, in insertion order.
ResultsOf(calls) ==
    [i \in 1..Len(calls) |->
        [method |-> calls[i].method, res |-> safe_call_and_log(calls[i].outcome).value]]

AnyRaised(calls) ==
    \E i \in 1..Len(calls) : safe_call_and_log(calls[i].outcome).raised

fetch_ltp_by_method(obj, out) ==
    LET calls == ProbeCalls(candidates, obj, out) \o ProbeCalls(quote_candidates, obj, out)
    IN  [calls |-> calls, results |-> ResultsOf(calls), raised |-> AnyRaised(calls)]

fetch_option_chain_probes(obj, out) ==
    LET calls == ProbeCalls(probes, obj, out) \o ProbeCalls(instrument_probes, obj, out)
    IN  [calls |-> calls, results |-> ResultsOf(calls), raised |-> AnyRaised(calls)]

\* Lines 290-314: the first method whose result is a dict holding a price under one
\* of the known keys. The regex fallback of lines 304-314 searches for a literal
\* backslash (the pattern is a raw string with doubled backslashes), which none of
\* the modelled values contains, so it finds nothing.
ChosenEntry(ltp_results) ==
    LET idx == {i \in 1..Len(ltp_results) : ltp_results[i].res = "quote"}
    IN  IF idx = {} THEN "None"
        ELSE ltp_results[CHOOSE i \in idx : \A j \in idx : i <= j].method

mock_snapshot(sym) ==
    [symbol |-> sym, ts |-> "ts", ltp |-> "price", volume |-> "volume",
     option_chain_ok |-> FALSE, note |-> "mocked"]

\* Lines 282-283: the mock payload with its debug tag.
MockPayload(sym, mock_mode) ==
    [debug |-> IF mock_mode THEN "mock_mode" ELSE "login_failed"] @@ mock_snapshot(sym)

\* Lines 317-324.
LivePayload(sym, ltp_results, oc_results) ==
    [symbol |-> sym, ltp_candidates |-> ltp_results, option_chain_probes |-> oc_results,
     chosen_ltp |-> IF ChosenEntry(ltp_results) = "None" THEN "None" ELSE "price",
     chosen_entry |-> ChosenEntry(ltp_results), ts |-> "ts"]

\* single_cycle logging in whatever mock_mode says.
ShouldLoginAlways(mock_mode) == TRUE

\* Line 271: whether single_cycle logs in.
ShouldLogin(mock_mode) == ~mock_mode

\* Line 281: whether the symbol gets a mock payload.
UseMock(mock_mode, obj) == mock_mode \/ ~obj.present

\* json.dumps(payload) of line 99 has no default=: it raises TypeError on a value it
\* cannot encode.
JsonSerializable(p) ==
    IF "ltp_candidates" \in DOMAIN p
    THEN /\ \A i \in 1..Len(p.ltp_candidates) : p.ltp_candidates[i].res # "object"
         /\ \A i \in 1..Len(p.option_chain_probes) : p.option_chain_probes[i].res # "object"
    ELSE TRUE

\* The JSON text stored in the payload column, kept as the keys and the debug tag.
json_dumps(p) ==
    [keys |-> DOMAIN p, debug |-> IF "debug" \in DOMAIN p THEN p.debug ELSE "absent"]

\* save_snapshot catching its own errors: nothing is inserted and nothing is raised.
save_snapshot_swallow(rows, seq, sym, p, db_error) ==
    IF ~JsonSerializable(p) \/ db_error
    THEN [raised |-> FALSE, rows |-> rows, seq |-> seq]
    ELSE [raised |-> FALSE,
          rows |-> Append(rows, [id |-> seq + 1, symbol |-> sym, ts |-> "ts",
                                 payload |-> json_dumps(p)]),
          seq |-> seq + 1]

\* save_snapshot: the table and the AUTOINCREMENT counter after the call, and whether
\* it raised (json.dumps failed, or SQLite raised: db_error).
save_snapshot(rows, seq, sym, p, db_error) ==
    IF ~JsonSerializable(p) \/ db_error
    THEN [raised |-> TRUE, rows |-> rows, seq |-> seq]
    ELSE [raised |-> FALSE,
          rows |-> Append(rows, [id |-> seq + 1, symbol |-> sym, ts |-> "ts",
                                 payload |-> json_dumps(p)]),
          seq |-> seq + 1]

\* send_telegram posting a second time when the first POST failed.
send_telegram_retry(token, chat_id, post) ==
    IF ~token \/ ~chat_id
    THEN [posts |-> 0, result |-> "None", raised |-> FALSE]
    ELSE [posts |-> IF post = "ok" THEN 1 ELSE 2,
          result |-> IF post = "ok" THEN "json" ELSE "None", raised |-> FALSE]

\* send_telegram: the POSTs made and the value returned.
send_telegram(token, chat_id, post) ==
    IF ~token \/ ~chat_id
    THEN [posts |-> 0, result |-> "None", raised |-> FALSE]
    ELSE [posts |-> 1, result |-> IF post = "ok" THEN "json" ELSE "None", raised |-> FALSE]

\* login_smartapi: whether it raised, the object it returned, the login response it
\* logged and the broker operations it invoked. The TOTP of lines 172-179 is only an
\* argument of the login call (its failure is caught and leaves totp = None); what
\* the call does with it is part of outcome.
login_smartapi(available, key, code, password, ctor_raises, surface, outcome) ==
    LET fail(ops) == [raised |-> TRUE, api |-> None, resp |-> "none", ops |-> ops]
        resp == safe_call_and_log(outcome)
        \* name is the method line 192 calls; the log keeps that a login call was made
        call(name) ==
            IF resp.raised THEN fail({"SmartConnect", "login"})
            ELSE [raised |-> FALSE,
                  api |-> [present |-> TRUE, methods |-> surface \ LoginNames],
                  resp |-> resp.value, ops |-> {"SmartConnect", "login"}]
    IN  IF ~available THEN fail({})
        ELSE IF ~key \/ ~code \/ ~password THEN fail({})
        ELSE IF ctor_raises THEN fail({"SmartConnect"})
        ELSE IF login_methods[1] \in surface THEN call(login_methods[1])
        ELSE IF login_methods[2] \in surface THEN call(login_methods[2])
        ELSE fail({"SmartConnect"})

\* run_loop, lines 352-360, on a clock reading t (seconds since midnight).
Hour(t) == t \div 3600
Minute(t) == (t % 3600) \div 60
next_min(t) == (Minute(t) \div 30) * 30 + 30
\* now.replace(...) keeps the date of now.
NextRun(t) ==
    IF next_min(t) >= 60
    THEN ((Hour(t) + 1) % 24) * 3600 + 5
    ELSE Hour(t) * 3600 + next_min(t) * 60 + 5
sleep_seconds(t) == NextRun(t) - t
SleepArg(t) == IF sleep_seconds(t) > 10 THEN sleep_seconds(t) ELSE 10

\* One day of clock readings, and the readings the orchestrator model draws from.
DayClock == 0..(24 * 3600 - 1)
SampleClock == {10 * 3600 + 2, 10 * 3600 + 17 * 60 + 40, 23 * 3600 + 45 * 60}

----------------------------------------------------------------------------
(* Initial states *)

\* The process as the interpreter reaches line 371: the environment and the flags are
\* read, nothing has run, the database file does not exist yet.
Fresh ==
    /\ pc = "startup"
    /\ exit_code = -1
    /\ exit_reason = "running"
    /\ cycle = 0
    /\ cycle_base = 0
    /\ snapshots = <<>>
    /\ sqlite_sequence = 0
    /\ api = None
    /\ login_resp = "none"
    /\ broker_log = {}
    /\ sym_idx = 0
    /\ ltp_calls = <<>>
    /\ oc_calls = <<>>
    /\ payload = NoPayload
    /\ notify_log = <<>>
    /\ tg = NoCall
    /\ now = 0
    /\ next_run = 0
    /\ slept = 0

Init ==
    /\ args_mock \in BOOLEAN
    /\ args_loop \in BOOLEAN
    /\ ANGEL_API_KEY \in BOOLEAN
    /\ ANGEL_CLIENT_CODE \in BOOLEAN
    /\ ANGEL_PASSWORD \in BOOLEAN
    /\ TELEGRAM_BOT_TOKEN \in BOOLEAN
    /\ TELEGRAM_CHAT_ID \in BOOLEAN
    /\ SMARTAPI_AVAILABLE \in BOOLEAN
    /\ db_faults = 0
    /\ Fresh

----------------------------------------------------------------------------
(* Actions *)

SessionReset ==
    /\ api' = None
    /\ login_resp' = "none"
    /\ broker_log' = {}

SymbolReset ==
    /\ ltp_calls' = <<>>
    /\ oc_calls' = <<>>
    /\ payload' = NoPayload
    /\ tg' = NoCall

TimerReset ==
    /\ now' = 0
    /\ next_run' = 0
    /\ slept' = 0

\* The process ends: its memory is gone, the database file stays.
Exit(code, reason) ==
    /\ pc' = "exited"
    /\ exit_code' = code
    /\ exit_reason' = reason
    /\ SessionReset
    /\ SymbolReset
    /\ TimerReset
    /\ UNCHANGED <<config, cycle, cycle_base, snapshots, sqlite_sequence, sym_idx, notify_log>>

\* Lines 372-396 up to the call of run_loop or single_cycle.
Startup ==
    /\ pc = "startup"
    /\ IF ~args_mock /\ ~SMARTAPI_AVAILABLE
       THEN Exit(3, "no_smartapi") /\ UNCHANGED db_faults
       ELSE /\ pc' = "run"
            /\ UNCHANGED <<config, exit_code, exit_reason, cycle, cycle_base, store,
                           session, scan, timer>>

\* run_loop's `while True:` body starts, or __main__ calls single_cycle once.
StartCycle ==
    /\ pc = "run"
    /\ cycle < MaxCycles
    /\ pc' = "init_db"
    /\ cycle' = cycle + 1
    /\ cycle_base' = sqlite_sequence
    /\ snapshots' = <<>>
    /\ SessionReset
    /\ SymbolReset
    /\ sym_idx' = 0
    /\ notify_log' = <<>>
    /\ UNCHANGED <<config, exit_code, exit_reason, sqlite_sequence, db_faults, timer>>

DbErrorChoices == IF db_faults < MaxDbFaults THEN BOOLEAN ELSE {FALSE}

\* init_db, line 269: outside every try of single_cycle and run_loop, so what it
\* raises reaches `except Exception` of line 399, which logs and re-raises.
InitDb ==
    /\ pc = "init_db"
    /\ \E db_error \in DbErrorChoices :
          IF db_error
          THEN /\ db_faults' = db_faults + 1
               /\ Exit(1, "fatal")
          ELSE /\ pc' = "login"
               /\ UNCHANGED <<config, exit_code, exit_reason, cycle, cycle_base, store,
                              session, scan, timer>>

\* Lines 270-277, the SmartConnect object drawn from family.
LoginStep(family) ==
    /\ pc = "login"
    /\ IF ShouldLogin(args_mock)
       THEN \E ctor_raises \in BOOLEAN, surface \in family, outcome \in LoginOutcomes :
               LET r == login_smartapi(SMARTAPI_AVAILABLE, ANGEL_API_KEY, ANGEL_CLIENT_CODE,
                                       ANGEL_PASSWORD, ctor_raises, surface, outcome)
               IN  /\ api' = r.api
                   /\ login_resp' = r.resp
                   /\ broker_log' = broker_log \cup r.ops
       ELSE UNCHANGED session
    /\ pc' = "sym_body"
    /\ sym_idx' = 1
    /\ UNCHANGED <<config, exit_code, exit_reason, cycle, cycle_base, store,
                   ltp_calls, oc_calls, payload, notify_log, tg, timer>>

Login == LoginStep(NarrowSurfaces)

LoginWide == LoginStep(Surfaces)

\* Lines 281-324: the payload of SYMBOLS[sym_idx].
ScanSymbol ==
    /\ pc = "sym_body"
    /\ IF UseMock(args_mock, api)
       THEN /\ payload' = MockPayload(SYMBOLS[sym_idx], args_mock)
            /\ ltp_calls' = <<>>
            /\ oc_calls' = <<>>
            /\ pc' = "sym_save"
            /\ UNCHANGED broker_log
       ELSE \E out \in [api.methods -> CallOutcomes] :
               LET ltp == fetch_ltp_by_method(api, out)
                   oc == fetch_option_chain_probes(api, out)
                   made == IF ltp.raised THEN ltp.calls ELSE ltp.calls \o oc.calls
               IN  /\ ltp_calls' = ltp.calls
                   /\ oc_calls' = IF ltp.raised THEN <<>> ELSE oc.calls
                   /\ broker_log' = IF made = <<>> THEN broker_log
                                    ELSE broker_log \cup {"fetch"}
                   /\ IF ltp.raised \/ oc.raised
                      THEN /\ payload' = NoPayload
                           /\ pc' = "sym_except"
                      ELSE /\ payload' = LivePayload(SYMBOLS[sym_idx], ltp.results, oc.results)
                           /\ pc' = "sym_save"
    /\ UNCHANGED <<config, exit_code, exit_reason, cycle, cycle_base, store,
                   api, login_resp, sym_idx, notify_log, tg, timer>>

\* Line 327. A payload json.dumps cannot encode makes the call raise whether or not
\* SQLite fails too; only an SQLite error that decides the outcome is counted.
SaveStep ==
    /\ pc = "sym_save"
    /\ \E db_error \in DbErrorChoices :
          LET r == save_snapshot(snapshots, sqlite_sequence, SYMBOLS[sym_idx], payload, db_error)
          IN  /\ snapshots' = r.rows
              /\ sqlite_sequence' = r.seq
              /\ db_faults' = IF db_error /\ JsonSerializable(payload)
                              THEN db_faults + 1 ELSE db_faults
              /\ pc' = IF r.raised THEN "sym_except" ELSE "sym_notify"
    /\ UNCHANGED <<config, exit_code, exit_reason, cycle, cycle_base, session, scan, timer>>

\* Lines 329-341.
NotifyStep ==
    /\ pc = "sym_notify"
    /\ \E post \in PostOutcomes :
          LET r == send_telegram(TELEGRAM_BOT_TOKEN, TELEGRAM_CHAT_ID, post)
          IN  /\ tg' = [posts |-> r.posts, result |-> r.result, raised |-> r.raised,
                        post |-> IF r.posts = 0 THEN "none" ELSE post]
              /\ pc' = IF r.raised THEN "sym_except" ELSE "sym_pause"
    /\ notify_log' = Append(notify_log, SYMBOLS[sym_idx])
    /\ UNCHANGED <<config, exit_code, exit_reason, cycle, cycle_base, store, session,
                   sym_idx, ltp_calls, oc_calls, payload, timer>>

\* The for loop takes the next symbol, or single_cycle returns.
Advance ==
    /\ SymbolReset
    /\ IF sym_idx < Len(SYMBOLS)
       THEN /\ pc' = "sym_body"
            /\ sym_idx' = sym_idx + 1
            /\ UNCHANGED <<session, notify_log>>
       ELSE /\ pc' = "cycle_done"
            /\ api' = None
            /\ UNCHANGED <<sym_idx, notify_log, broker_log, login_resp>>

\* Line 343: time.sleep(0.4).
PauseStep ==
    /\ pc = "sym_pause"
    /\ Advance
    /\ UNCHANGED <<config, exit_code, exit_reason, cycle, cycle_base, store, timer>>

\* Lines 344-345: `except Exception` of the symbol's try logs and the loop goes on.
ExceptStep ==
    /\ pc = "sym_except"
    /\ Advance
    /\ UNCHANGED <<config, exit_code, exit_reason, cycle, cycle_base, store, timer>>

\* single_cycle returned to line 396: the try block ends and the process exits.
OneShotExit ==
    /\ pc = "cycle_done"
    /\ ~args_loop
    /\ Exit(0, "normal")
    /\ UNCHANGED db_faults

\* Lines 352-360 up to the call of time.sleep, the clock reading t.
RunLoopSleep(t) ==
    /\ pc = "cycle_done"
    /\ args_loop
    /\ now' = t
    /\ next_run' = NextRun(t)
    /\ slept' = SleepArg(t)
    /\ pc' = "sleeping"
    /\ UNCHANGED <<config, exit_code, exit_reason, cycle, cycle_base, store, session, scan>>

SleepSampled == pc = "cycle_done" /\ \E t \in SampleClock : RunLoopSleep(t)

SleepAnyTime == pc = "cycle_done" /\ \E t \in DayClock : RunLoopSleep(t)

\* time.sleep returns and `while True` starts over.
Wake ==
    /\ pc = "sleeping"
    /\ pc' = "run"
    /\ TimerReset
    /\ UNCHANGED <<config, exit_code, exit_reason, cycle, cycle_base, store, session, scan>>

\* Ctrl-C inside the try block of lines 392-396: `except KeyboardInterrupt` logs and
\* the process ends normally.
TryRegion == {"run", "init_db", "login", "sym_body", "sym_save", "sym_notify", "sym_pause",
              "sym_except", "cycle_done", "sleeping"}

KeyboardInterrupt ==
    /\ pc \in TryRegion
    /\ Exit(0, "interrupt")
    /\ UNCHANGED db_faults

Next ==
    \/ Startup
    \/ StartCycle
    \/ InitDb
    \/ Login
    \/ ScanSymbol
    \/ SaveStep
    \/ NotifyStep
    \/ PauseStep
    \/ ExceptStep
    \/ OneShotExit
    \/ SleepSampled
    \/ Wake
    \/ KeyboardInterrupt

Spec == Init /\ [][Next]_vars

----------------------------------------------------------------------------
(* The fetch helpers on every surface of up to MaxExposed probed methods: one live  *)
(* one-shot run with all credentials set and Telegram unconfigured.                *)

FetchInit ==
    /\ args_mock = FALSE
    /\ args_loop = FALSE
    /\ ANGEL_API_KEY = TRUE
    /\ ANGEL_CLIENT_CODE = TRUE
    /\ ANGEL_PASSWORD = TRUE
    /\ TELEGRAM_BOT_TOKEN = FALSE
    /\ TELEGRAM_CHAT_ID = FALSE
    /\ SMARTAPI_AVAILABLE = TRUE
    /\ db_faults = 0
    /\ Fresh

FetchNext ==
    \/ Startup
    \/ StartCycle
    \/ InitDb
    \/ LoginWide
    \/ ScanSymbol
    \/ SaveStep
    \/ NotifyStep
    \/ PauseStep
    \/ ExceptStep
    \/ OneShotExit
    \/ KeyboardInterrupt

SpecFetch == FetchInit /\ [][FetchNext]_vars

----------------------------------------------------------------------------
(* run_loop's sleep computation on every clock reading of a day: the state in      *)
(* which `python main.py --loop --mock` finishes its first cycle with nothing set   *)
(* in the environment, and the steps of lines 352-360 from there.                   *)

ClockInit ==
    /\ args_mock = TRUE
    /\ args_loop = TRUE
    /\ ANGEL_API_KEY = FALSE
    /\ ANGEL_CLIENT_CODE = FALSE
    /\ ANGEL_PASSWORD = FALSE
    /\ TELEGRAM_BOT_TOKEN = FALSE
    /\ TELEGRAM_CHAT_ID = FALSE
    /\ SMARTAPI_AVAILABLE = FALSE
    /\ pc = "cycle_done"
    /\ exit_code = -1
    /\ exit_reason = "running"
    /\ cycle = 1
    /\ cycle_base = 0
    /\ snapshots = [i \in 1..Len(SYMBOLS) |->
                      [id |-> i, symbol |-> SYMBOLS[i], ts |-> "ts",
                       payload |-> json_dumps(MockPayload(SYMBOLS[i], TRUE))]]
    /\ sqlite_sequence = Len(SYMBOLS)
    /\ db_faults = 0
    /\ api = None
    /\ login_resp = "none"
    /\ broker_log = {}
    /\ sym_idx = Len(SYMBOLS)
    /\ ltp_calls = <<>>
    /\ oc_calls = <<>>
    /\ payload = NoPayload
    /\ notify_log = SYMBOLS
    /\ tg = NoCall
    /\ now = 0
    /\ next_run = 0
    /\ slept = 0

ClockNext ==
    \/ SleepAnyTime
    \/ Wake

SpecClock == ClockInit /\ [][ClockNext]_vars

----------------------------------------------------------------------------
(* Properties *)

MethodsOf(calls) == [i \in 1..Len(calls) |-> calls[i].method]
Exposed(names, obj) == SelectSeq(names, LAMBDA m : m \in obj.methods)
StrictlyIncreasingIds(rows) == \A i \in 1..(Len(rows) - 1) : rows[i].id < rows[i + 1].id
MockKeys == {"symbol", "ts", "ltp", "volume", "option_chain_ok", "note", "debug"}
Configured == TELEGRAM_BOT_TOKEN /\ TELEGRAM_CHAT_ID
CredentialsSet == ANGEL_API_KEY /\ ANGEL_CLIENT_CODE /\ ANGEL_PASSWORD

\* C1: when single_cycle returns, the table has gained exactly one row per symbol of
\* SYMBOLS, in scan order, with strictly increasing ids.
C1_OneRecordPerSymbol ==
    pc = "cycle_done" =>
        /\ Len(snapshots) = Len(SYMBOLS)
        /\ \A i \in 1..Len(snapshots) : snapshots[i].symbol = SYMBOLS[i]
        /\ \A i \in 1..Len(snapshots) : snapshots[i].id > cycle_base
        /\ StrictlyIncreasingIds(snapshots)

\* The earliest instant strictly after t whose time of day is HH:00:05 or HH:30:05.
EarliestBoundary(t) == CHOOSE x \in (t + 1)..(t + 1800) : x % 1800 = 5

\* C2: whenever run_loop goes to sleep, next_run is the earliest instant strictly
\* after now whose time of day is HH:00:05 or HH:30:05, and the duration passed to
\* sleep is at least 10 seconds.
C2_NextBoundary ==
    pc = "sleeping" =>
        /\ next_run = EarliestBoundary(now)
        /\ slept >= 10

ScanStages == {"sym_body", "sym_save", "sym_notify", "sym_pause", "sym_except"}

LoginFailed ==
    /\ ~args_mock
    /\ pc \in ScanStages
    /\ (login_resp \in {"error", "refused"} \/ ~api.present)

\* C3: in a non-mock cycle whose login failed (the login call raised or was refused,
\* or login_smartapi raised), no fetch call is made on the broker and every symbol's
\* payload is the mock payload tagged debug = "login_failed".
C3_LoginFailureFallsBack ==
    LoginFailed =>
        /\ "fetch" \notin broker_log
        /\ ltp_calls = <<>> /\ oc_calls = <<>>
        /\ (pc \in {"sym_save", "sym_notify"} =>
               "debug" \in DOMAIN payload /\ payload.debug = "login_failed")

\* C4: without --mock, a missing credential or a missing SmartApi client makes the
\* process exit with a non-zero code before any cycle starts, nothing written and
\* nothing notified; with --mock the missing client does not stop the process.
C4_ConfigErrorExitsBeforeCycle ==
    /\ (~args_mock /\ (~CredentialsSet \/ ~SMARTAPI_AVAILABLE)) =>
          /\ cycle = 0
          /\ sqlite_sequence = 0
          /\ notify_log = <<>>
          /\ (pc = "exited" => exit_code > 0)
    /\ args_mock => exit_reason # "no_smartapi"

RaisedCallsRecorded(calls, key) ==
    \A i \in 1..Len(calls) :
        calls[i].outcome = "raise" =>
            /\ key \in DOMAIN payload
            /\ \E j \in 1..Len(payload[key]) :
                  payload[key][j] = [method |-> calls[i].method, res |-> "error"]

\* C5: a broker fetch method that raises leaves the value {"error": ...} under its
\* name in the symbol's result, the symbol's payload is still assembled, and the
\* cycle ends only after every symbol of SYMBOLS was scanned.
C5_FetchErrorIsolated ==
    /\ RaisedCallsRecorded(ltp_calls, "ltp_candidates")
    /\ RaisedCallsRecorded(oc_calls, "option_chain_probes")
    /\ (pc = "cycle_done" => sym_idx = Len(SYMBOLS))

\* A quote method raised for the second symbol and its payload is about to be saved.
C5_Witness ==
    /\ pc = "sym_save"
    /\ sym_idx = 2
    /\ \E i \in 1..Len(ltp_calls) : ltp_calls[i].outcome = "raise"

\* C6: with --mock no broker operation is invoked (no SmartConnect, no login, no
\* fetch), and every payload built or stored has the same fixed set of keys.
C6_MockMakesNoBrokerCall ==
    args_mock =>
        /\ broker_log = {}
        /\ ~api.present
        /\ login_resp = "none"
        /\ ltp_calls = <<>> /\ oc_calls = <<>>
        /\ (payload # NoPayload => DOMAIN payload = MockKeys)
        /\ \A i \in 1..Len(snapshots) : snapshots[i].payload.keys = MockKeys

\* A mock cycle ran to its end with the client installed and the credentials set.
C6_Witness ==
    /\ args_mock
    /\ SMARTAPI_AVAILABLE /\ CredentialsSet
    /\ pc = "cycle_done"
    /\ Len(snapshots) = Len(SYMBOLS)

\* C7: in loop mode, once the loop has started, the process ends only by an
\* interrupt, and then with exit code 0.
C7_OnlyInterruptEndsLoop ==
    (args_loop /\ cycle > 0 /\ pc = "exited") =>
        /\ exit_reason = "interrupt"
        /\ exit_code = 0

\* C8 as claimed: at most one candidate method is invoked per symbol per fetch.
C8_OnlyFirstCandidate ==
    pc = "sym_save" => Len(ltp_calls) <= 1 /\ Len(oc_calls) <= 1

\* C8 as amended: each fetch invokes every candidate the broker object exposes, once
\* each and in list order, and the result holds one entry per invoked method under
\* that method's name.
C8_EveryExposedCandidate ==
    (pc = "sym_save" /\ api.present) =>
        /\ MethodsOf(ltp_calls) = Exposed(candidates \o quote_candidates, api)
        /\ MethodsOf(oc_calls) = Exposed(probes \o instrument_probes, api)
        /\ MethodsOf(payload.ltp_candidates) = MethodsOf(ltp_calls)
        /\ MethodsOf(payload.option_chain_probes) = MethodsOf(oc_calls)

\* The quote fetch invoked two candidate methods for one symbol.
C8_Witness ==
    /\ pc = "sym_save"
    /\ api.present
    /\ Len(ltp_calls) = 2

\* C9: send_telegram never raises and never retries: unconfigured it makes no POST
\* and returns None; configured it makes exactly one POST and returns None when the
\* POST fails.
C9_SendTelegram ==
    tg # NoCall =>
        /\ ~tg.raised
        /\ (~Configured => tg.posts = 0 /\ tg.result = "None")
        /\ (Configured => tg.posts = 1)
        /\ ((Configured /\ tg.post # "ok") => tg.result = "None")

\* A configured send whose POST came back with a non-2xx status.
C9_Witness ==
    /\ pc = "sym_pause"
    /\ Configured
    /\ tg.posts = 1
    /\ tg.post = "http_error"
    /\ tg.result = "None"

HasRow(sym) == \E i \in 1..Len(snapshots) : snapshots[i].symbol = sym

\* C10: send_telegram is called for a symbol only after that symbol's row was
\* inserted in this cycle, and the notification step, whatever the POST does,
\* changes nothing in the table and always continues to the pause before the next
\* symbol.
C10_SaveBeforeNotify ==
    /\ [](/\ pc = "sym_notify" =>
                /\ Len(snapshots) > 0
                /\ snapshots[Len(snapshots)].symbol = SYMBOLS[sym_idx]
          /\ \A i \in 1..Len(notify_log) : HasRow(notify_log[i]))
    /\ [][(pc = "sym_notify" /\ pc' # "exited") =>
             /\ pc' = "sym_pause"
             /\ UNCHANGED <<store, session, sym_idx, payload>>]_vars

\* The POST for the second symbol failed and both rows of the cycle are in the table.
C10_Witness ==
    /\ pc = "sym_pause"
    /\ sym_idx = 2
    /\ tg.post = "transport_error"
    /\ Len(snapshots) = 2
    /\ notify_log = SubSeq(SYMBOLS, 1, 2)

====
